---- MODULE Spec2Model ----
(***************************************************************************)
(* Model of the unscented Kalman filter of src/src/ukf.cpp (class UKF).    *)
(*                                                                         *)
(* Numbers.  The code computes in IEEE doubles.  The model computes in     *)
(* decimal fixed point: the integer a stands for the real a / SCALE, and   *)
(* every product and quotient is rounded toward zero to a multiple of      *)
(* 1/SCALE.  Thresholds and constants of the code keep their value         *)
(* (0.001 is SCALE \div 1000, M_PI is 3.1416).  The library functions the  *)
(* code calls (sqrt, sin, cos, atan2, fmod of libm; llt() and inverse()    *)
(* of Eigen) are modelled by what they compute, to the resolution of the   *)
(* fixed point.  Vectors and matrices are sequences, so indices run from   *)
(* 1 where the code's run from 0.  The integers have 32 bits: the model    *)
(* holds magnitudes up to about 2^31 / SCALE, and TLC stops with an        *)
(* overflow error, never with a wrong value, on a run that leaves them.    *)
(* No run of at most MaxCalls calls does.                                  *)
(***************************************************************************)
EXTENDS Integers, Sequences, FiniteSets

VARIABLES
    is_initialized_,  \* ukf.cpp:17
    use_laser_,       \* ukf.cpp:20
    use_radar_,       \* ukf.cpp:23
    time_us_,         \* ukf.cpp:26
    x_,               \* ukf.cpp:62   state vector, n_x_ entries
    P_,               \* ukf.cpp:65   covariance, n_x_ rows of n_x_ entries
    Xsig_pred_,       \* ukf.cpp:68   2*n_aug_+1 columns of n_x_ entries
    weights_,         \* ukf.cpp:74   2*n_aug_+1 rationals
    NIS_radar_,       \* ukf.cpp:50
    NIS_laser_,       \* ukf.cpp:53
    nonfinite,        \* TRUE once x_ and P_ hold inf/nan (after an inverse of a singular S)
    calls,            \* number of ProcessMeasurement calls made so far
    meas_package,     \* the argument of the last ProcessMeasurement call
    trace,            \* the member functions the last call ran, in order
    delta_t,          \* the argument of the last Prediction call
    faults,           \* the numerical faults met during the last call
    outcome,          \* what the last call handed back to its caller
    divisors,         \* per guarded division of the calls so far: what was done, and the divisor
    Zsig_log,         \* per sigma point of the UpdateRadar calls so far: computed range, Zsig(0,i), Zsig(1,i)
    angle,            \* an angle handed to the angle normalization on its own
    normalized        \* what the normalization made of angle, and of its own result

vars == <<is_initialized_, use_laser_, use_radar_, time_us_, x_, P_, Xsig_pred_,
          weights_, NIS_radar_, NIS_laser_, nonfinite, calls, meas_package,
          trace, delta_t, faults, outcome, divisors, Zsig_log, angle, normalized>>

-----------------------------------------------------------------------------
(* Bounds of the model. *)

\* ProcessMeasurement is called at most MaxCalls times.
MaxCalls == 4

\* The largest augmented dimension for which the weights are built.
MaxNAug == 12

\* The angles normalized on their own are the multiples of 0.1 up to MaxAngleSteps * 0.1
\* in magnitude, and the multiples of pi up to 3 pi.
MaxAngleSteps == 100

-----------------------------------------------------------------------------
(* Fixed-point arithmetic standing for the code's double arithmetic. *)

\* One unit of the fixed point is 1/SCALE.
SCALE == 10000

\* F applied to the value v: v is computed once, however often F uses it.
Bind(v, F(_)) == F(v)

Abs(a) == IF a < 0 THEN -a ELSE a

\* The sign of a product or quotient of a and b.
SignOf(a, b) == IF (a >= 0) = (b >= 0) THEN 1 ELSE -1

\* a / k rounded toward zero, for an integer k > 0.
TDiv(a, k) == IF a >= 0 THEN a \div k ELSE -((-a) \div k)

\* a * b for a, b >= 0, computed in parts so that no intermediate exceeds 31 bits.
MulU(a, b) ==
    IF a <= 46340 /\ b <= 46340
    THEN (a * b) \div SCALE
    ELSE (a \div SCALE) * (b \div SCALE) * SCALE + (a \div SCALE) * (b % SCALE)
         + (a % SCALE) * (b \div SCALE) + ((a % SCALE) * (b % SCALE)) \div SCALE

\* double * double
Mul(a, b) == SignOf(a, b) * MulU(Abs(a), Abs(b))

\* The digits of r / b after the point, n of them, for 0 <= r < b.
RECURSIVE FracDigits(_, _, _, _)
FracDigits(r, b, n, acc) ==
    IF n = 0 THEN acc
    ELSE FracDigits((r * 10) % b, b, n - 1, acc * 10 + (r * 10) \div b)

\* a / b for a >= 0, b > 0.
DivU(a, b) ==
    IF a <= 200000
    THEN (a * SCALE) \div b
    ELSE (a \div b) * SCALE + FracDigits(a % b, b, 4, 0)

\* double / double, the divisor not zero.
Div(a, b) == SignOf(a, b) * DivU(Abs(a), Abs(b))

\* A first guess not below the square root of a * SCALE, for 0 < a < 2^31.
SqrtGuess(a) ==
    IF a <= 1 THEN 100
    ELSE IF a <= 100 THEN 1000
    ELSE IF a <= 10000 THEN 10000
    ELSE IF a <= 1000000 THEN 100000
    ELSE IF a <= 100000000 THEN 1000000
    ELSE 4700000

\* One step of Newton's iteration for the square root of a * SCALE.
NewtonStep(a, r) == (r + DivU(a, r)) \div 2

\* Newton's iteration on integers from a guess r not below the root: it
\* descends to the largest r with r * r <= a * SCALE.
RECURSIVE SqrtNewton(_, _, _)
SqrtNewton(a, r, next) ==
    IF next >= r THEN r ELSE SqrtNewton(a, next, NewtonStep(a, next))

\* sqrt(double), the argument not negative.
sqrt(a) ==
    IF a <= 0 THEN 0 ELSE SqrtNewton(a, SqrtGuess(a), NewtonStep(a, SqrtGuess(a)))

\* fmod(a, b) of libm for b > 0: the remainder has the sign of a.
fmod(a, b) == IF a >= 0 THEN a % b ELSE -((-a) % b)

\* M_PI of <cmath>.
M_PI == 31416

\* M_PI / 2.
HALF_PI == M_PI \div 2

\* x * (1 - x2/6 * (1 - x2/20 * (1 - x2/42))) with x2 = x * x: the series of
\* sin up to x^7/7!, for x in [0, pi/4].
SinSeries(x, x2) ==
    LET q3 == SCALE - TDiv(x2, 42)
        q2 == SCALE - TDiv(Mul(x2, q3), 20)
        q1 == SCALE - TDiv(Mul(x2, q2), 6)
    IN  Mul(x, q1)

\* 1 - x2/2 * (1 - x2/12 * (1 - x2/30 * (1 - x2/56))) with x2 = x * x: the
\* series of cos up to x^8/8!, for x in [-pi/4, pi/4].
CosSeries(x2) ==
    LET q4 == SCALE - TDiv(x2, 56)
        q3 == SCALE - TDiv(Mul(x2, q4), 30)
        q2 == SCALE - TDiv(Mul(x2, q3), 12)
    IN  SCALE - TDiv(Mul(x2, q2), 2)

\* sin of an angle a of [0, pi]: sin(a) near 0, cos(pi/2 - a) around pi/2,
\* sin(pi - a) near pi, so that each series is used within pi/4 of 0.
SinFolded(a) ==
    IF a <= HALF_PI \div 2 THEN SinSeries(a, Mul(a, a))
    ELSE IF a <= M_PI - HALF_PI \div 2 THEN CosSeries(Mul(HALF_PI - a, HALF_PI - a))
    ELSE SinSeries(M_PI - a, Mul(M_PI - a, M_PI - a))

\* sin(double): the argument is reduced to [-pi, pi); sin is odd.
sin(x) ==
    Bind(((x + M_PI) % (2 * M_PI)) - M_PI,
         LAMBDA y : IF y < 0 THEN -SinFolded(-y) ELSE SinFolded(y))

\* cos(double)
cos(x) == sin(x + HALF_PI)

\* atan on [0, 1] (Abramowitz & Stegun 4.4.47, odd polynomial of degree 9), z2 = z * z.
AtanUnit(z, z2) ==
    LET p3 == Mul(208, z2) - 851
        p2 == Mul(p3, z2) + 1801
        p1 == Mul(p2, z2) - 3303
        p0 == Mul(p1, z2) + 9999
    IN  Mul(z, p0)

\* The angle of the point (ax, ay) of the first quadrant, from atan of the
\* quotient z of the smaller by the larger coordinate.
FirstQuadrant(ax, ay, z) ==
    Bind(AtanUnit(z, Mul(z, z)), LAMBDA a : IF ax >= ay THEN a ELSE HALF_PI - a)

\* atan2(y, x) of libm, in (-pi, pi].
atan2(y, x) ==
    IF x = 0 /\ y = 0 THEN 0
    ELSE Bind(FirstQuadrant(Abs(x), Abs(y),
                            IF Abs(x) >= Abs(y) THEN Div(Abs(y), Abs(x)) ELSE Div(Abs(x), Abs(y))),
              LAMBDA a : (IF y >= 0 THEN 1 ELSE -1) * (IF x < 0 THEN M_PI - a ELSE a))

-----------------------------------------------------------------------------
(* Vectors and matrices. *)

\* <<F(1), ..., F(n)>> as a sequence whose entries are computed once, when it is built.
Vec(F(_), n) == [i \in 1..n |-> F(i)] \o <<>>

\* F(lo) + ... + F(hi)
RECURSIVE SumRange(_, _, _)
SumRange(F(_), lo, hi) ==
    IF lo > hi THEN 0
    ELSE IF lo = hi THEN F(lo)
    ELSE SumRange(F, lo, (lo + hi) \div 2) + SumRange(F, (lo + hi) \div 2 + 1, hi)

\* F(1) + ... + F(n)
Sum(F(_), n) == SumRange(F, 1, n)

Rows(A) == Len(A)
Cols(A) == Len(A[1])

\* A * B
MatMul(A, B) ==
    Vec(LAMBDA i : Vec(LAMBDA j : Sum(LAMBDA k : Mul(A[i][k], B[k][j]), Cols(A)), Cols(B)), Rows(A))

\* A.transpose()
Transpose(A) == Vec(LAMBDA i : Vec(LAMBDA j : A[j][i], Rows(A)), Cols(A))

\* A + B
MatAdd(A, B) == Vec(LAMBDA i : Vec(LAMBDA j : A[i][j] + B[i][j], Cols(A)), Rows(A))

\* A - B
MatSub(A, B) == Vec(LAMBDA i : Vec(LAMBDA j : A[i][j] - B[i][j], Cols(A)), Rows(A))

\* u + v
VecAdd(u, v) == Vec(LAMBDA i : u[i] + v[i], Len(u))

\* A * v
MatVec(A, v) == Vec(LAMBDA i : Sum(LAMBDA k : Mul(A[i][k], v[k]), Len(v)), Rows(A))

\* u.transpose() * A
VecMat(u, A) == Vec(LAMBDA j : Sum(LAMBDA k : Mul(u[k], A[k][j]), Len(u)), Cols(A))

\* u.transpose() * v
Dot(u, v) == Sum(LAMBDA k : Mul(u[k], v[k]), Len(u))

\* The diagonal matrix with the entries of d on its diagonal.
Diagonal(d) == Vec(LAMBDA i : Vec(LAMBDA j : IF i = j THEN d[i] ELSE 0, Len(d)), Len(d))

-----------------------------------------------------------------------------
(* The constructor UKF::UKF(). *)

\* Process noise standard deviation longitudinal acceleration, 1.0.
std_a_ == 10000

\* Process noise standard deviation yaw acceleration, 1.0.
std_yawdd_ == 10000

\* Laser measurement noise standard deviation position1, 0.15.
std_laspx_ == 1500

\* Laser measurement noise standard deviation position2, 0.15.
std_laspy_ == 1500

\* Radar measurement noise standard deviation radius, 0.3.
std_radr_ == 3000

\* Radar measurement noise standard deviation angle, 0.03.
std_radphi_ == 300

\* Radar measurement noise standard deviation radius change, 0.3.
std_radrd_ == 3000

\* State dimension.
n_x_ == 5

\* Augmented state dimension.
n_aug_ == 7

\* Sigma point spreading parameter for an augmented dimension naug: 3.0 - n_aug_.
Lambda(naug) == 3 - naug

lambda_ == Lambda(n_aug_)

\* Number of sigma points, 2 * n_aug_ + 1.
NSigma(naug) == 2 * naug + 1

\* weights_(0) = lambda_ / (lambda_ + n_aug_), as the exact quotient num/den.
FirstWeight(naug) == [num |-> Lambda(naug), den |-> Lambda(naug) + naug]

\* The weight as 0.5 / n_aug_: lambda_ left out of the denominator.
OtherWeightNoLambda(naug) == [num |-> 1, den |-> 2 * naug]

\* weights_(i) = 0.5 / (n_aug_ + lambda_) for i >= 1, as the exact quotient num/den.
OtherWeight(naug) == [num |-> 1, den |-> 2 * (naug + Lambda(naug))]

\* The weight vector: entry 0, then the loop over the entries 1 .. 2*n_aug_.
Weights(naug) ==
    Vec(LAMBDA i : IF i = 1 THEN FirstWeight(naug) ELSE OtherWeight(naug), NSigma(naug))

\* weights_(i) * v
MulW(w, v) == TDiv(w.num * v, w.den)

\* What x_, P_ and Xsig_pred_ hold before they are first assigned: the
\* constructor allocates them without setting them, and no code reads them
\* before ProcessMeasurement (x_, P_) or Prediction (Xsig_pred_) has assigned them.
Unset(rows, cols) == [i \in 1..rows |-> [j \in 1..cols |-> 0]]

\* No package: the value of meas_package before the first call.
NoPackage == [sensor_type_ |-> "NONE", raw_measurements_ |-> <<0, 0>>, timestamp_ |-> 0]

\* The estimator after UKF::UKF().  use_laser_ and use_radar_ are the two
\* switches of the class: the constructor's lines 20 and 23 give them their
\* value, and a sensor is switched off by giving it false there.
Constructed ==
    /\ is_initialized_ = FALSE
    /\ use_laser_ \in BOOLEAN
    /\ use_radar_ \in BOOLEAN
    /\ time_us_ = 0
    /\ x_ = [i \in 1..n_x_ |-> 0]
    /\ P_ = Unset(n_x_, n_x_)
    /\ Xsig_pred_ = Unset(NSigma(n_aug_), n_x_)
    /\ weights_ = Weights(n_aug_)
    /\ NIS_radar_ = 0
    /\ NIS_laser_ = 0
    /\ nonfinite = FALSE
    /\ calls = 0
    /\ meas_package = NoPackage
    /\ trace = <<>>
    /\ delta_t = 0
    /\ faults = {}
    /\ outcome = "none"
    /\ divisors = {}
    /\ Zsig_log = {}

Init ==
    /\ Constructed
    /\ angle = 0
    /\ normalized = <<>>

-----------------------------------------------------------------------------
(* Eigen's LLT, as P_aug.llt().matrixL() uses it. *)

\* Row i of the matrix times row k, over the columns before k.
RowDot(M, i, k) == Sum(LAMBDA j : Mul(M[i][j], M[k][j]), k - 1)

\* Column k of the factor once its diagonal entry r is known: the rows below
\* k get (M(i,k) - rows i and k multiplied) / r, the other columns stay.
LltColumn(M, k, n, r) ==
    Vec(LAMBDA i :
          IF i < k THEN M[i]
          ELSE IF i = k THEN [M[k] EXCEPT ![k] = r]
          ELSE [M[i] EXCEPT ![k] = Div(M[i][k] - RowDot(M, i, k), r)],
        n)

\* Eigen::internal::llt_inplace<Lower>::unblocked on the columns k .. n of the
\* n x n matrix M, x being M(k,k) less the squares of row k before column k:
\* a pivot x that is not positive ends the factorization with NumericalIssue,
\* the columns from k on left as they were.
RECURSIVE LltUnblocked(_, _, _, _)
LltUnblocked(M, k, n, x) ==
    IF x <= 0 THEN [info |-> "NumericalIssue", m |-> M]
    ELSE IF k = n THEN [info |-> "Success", m |-> LltColumn(M, k, n, sqrt(x))]
    ELSE Bind(LltColumn(M, k, n, sqrt(x)),
              LAMBDA M2 : LltUnblocked(M2, k + 1, n, M2[k + 1][k + 1] - RowDot(M2, k + 1, k + 1)))

\* A.llt(): the factorization of the n x n matrix A.
Llt(A, n) == LltUnblocked(A, 1, n, A[1][1])

\* matrixL(): the lower triangle of the factorized storage, zero above it.
MatrixL(m, n) == Vec(LAMBDA i : Vec(LAMBDA j : IF j <= i THEN m[i][j] ELSE 0, n), n)

-----------------------------------------------------------------------------
(* Eigen's inverse() of a dynamic-size matrix. *)

\* The row among i .. n whose entry in column k is largest in magnitude (the first such).
RECURSIVE PivotRow(_, _, _, _)
PivotRow(A, k, i, n) ==
    IF i >= n THEN n
    ELSE Bind(PivotRow(A, k, i + 1, n),
              LAMBDA best : IF Abs(A[i][k]) >= Abs(A[best][k]) THEN i ELSE best)

\* Rows k and p exchanged, row k divided by the pivot, and column k cleared
\* from the other rows; rowk is the divided row.
EliminateColumn(A, k, p, n, rowk) ==
    Vec(LAMBDA i :
          IF i = k THEN rowk
          ELSE Bind(IF i = p THEN A[k] ELSE A[i],
                    LAMBDA row : Vec(LAMBDA j : row[j] - Mul(row[k], rowk[j]), 2 * n)),
        n)

\* Elimination with partial pivoting on the n rows of [S | I], from column k
\* on, p being the pivot row of column k.  Eigen does not test the pivot: with
\* a zero pivot the result holds inf and nan.
RECURSIVE Eliminate(_, _, _, _)
Eliminate(A, k, n, p) ==
    IF A[p][k] = 0 THEN [invertible |-> FALSE, m |-> A]
    ELSE Bind(EliminateColumn(A, k, p, n, Vec(LAMBDA j : Div(A[p][j], A[p][k]), 2 * n)),
              LAMBDA A2 : IF k = n THEN [invertible |-> TRUE, m |-> A2]
                          ELSE Eliminate(A2, k + 1, n, PivotRow(A2, k + 1, k + 1, n)))

\* The right half of the eliminated [S | I].
RightHalf(r, n) ==
    [invertible |-> r.invertible, m |-> Vec(LAMBDA i : SubSeq(r.m[i], n + 1, 2 * n), n)]

\* [S | I]
WithIdentity(M, n) ==
    Vec(LAMBDA i : M[i] \o Vec(LAMBDA j : IF i = j THEN SCALE ELSE 0, n), n)

\* S.inverse()
Inverse(M) ==
    Bind(WithIdentity(M, Rows(M)),
         LAMBDA A : RightHalf(Eliminate(A, 1, Rows(M), PivotRow(A, 1, 1, Rows(M))), Rows(M)))

-----------------------------------------------------------------------------
(* UKF::Prediction(delta_t). *)

\* 0.001 of "if (fabs(yawd) > 0.001)".
YAWD_EPS == 10

\* 0.5
HALF == 5000

\* x_diff(3) = fmod(x_diff(3) + M_PI, 2.0 * M_PI) - M_PI, the statement the
\* code repeats under every "angle normalization" comment.
NormalizeAngle(a) == fmod(a + M_PI, 2 * M_PI) - M_PI

\* x_aug: the state with two zeros appended.
AugmentedMean(x) == x \o <<0, 0>>

\* P_aug: P_ in the top left corner, the noise variances on the diagonal, zero elsewhere.
AugmentedCovariance(P) ==
    Vec(LAMBDA i : Vec(LAMBDA j :
            IF i <= n_x_ /\ j <= n_x_ THEN P[i][j]
            ELSE IF i = n_x_ + 1 /\ j = n_x_ + 1 THEN Mul(std_a_, std_a_)
            ELSE IF i = n_x_ + 2 /\ j = n_x_ + 2 THEN Mul(std_yawdd_, std_yawdd_)
            ELSE 0, n_aug_), n_aug_)

\* Xsig_aug, as its 2*n_aug_+1 columns: column 0 is x_aug, column i+1 is
\* x_aug + sqrt_lam_aug * L.col(i), column i+1+n_aug_ is x_aug - the same.
AugmentedSigmaPoints(x_aug, L, sqrt_lam_aug) ==
    Vec(LAMBDA c :
          IF c = 1 THEN x_aug
          ELSE IF c <= n_aug_ + 1
               THEN Vec(LAMBDA r : x_aug[r] + Mul(sqrt_lam_aug, L[r][c - 1]), n_aug_)
               ELSE Vec(LAMBDA r : x_aug[r] - Mul(sqrt_lam_aug, L[r][c - 1 - n_aug_]), n_aug_),
        NSigma(n_aug_))

\* The test as "if (yawd != 0)": the division guarded against zero alone.
TurningUnlessZero(yawd) == yawd # 0

\* if (fabs(yawd) > 0.001): the turning formula, which divides by yawd, is used.
Turning(yawd) == Abs(yawd) > YAWD_EPS

\* px_p and py_p before the noise is added; sy, cy are sin and cos of yaw,
\* se, ce are sin and cos of yaw + yawd * delta_t.
PredictedPosition(p_x, p_y, v, yawd, dt, sy, cy, se, ce) ==
    IF Turning(yawd)
    THEN Bind(Div(v, yawd), LAMBDA q : <<p_x + Mul(q, se - sy), p_y + Mul(q, cy - ce)>>)
    ELSE Bind(Mul(v, dt), LAMBDA s : <<p_x + Mul(s, cy), p_y + Mul(s, sy)>>)

\* The predicted sigma point from the position pos, with the noise added;
\* h is 0.5 * nu_a * delta_t * delta_t.
WithNoise(pos, v, yaw, yawd, nu_a, nu_yawdd, dt, sy, cy, h) ==
    << pos[1] + Mul(h, cy),
       pos[2] + Mul(h, sy),
       v + Mul(nu_a, dt),
       yaw + Mul(yawd, dt) + Mul(Mul(Mul(HALF, nu_yawdd), dt), dt),
       yawd + Mul(nu_yawdd, dt) >>

\* The sines and cosines one sigma point needs, each computed once.
PredictWithTrig(c, dt, sy, cy, se, ce) ==
    WithNoise(PredictedPosition(c[1], c[2], c[3], c[5], dt, sy, cy, se, ce),
              c[3], c[4], c[5], c[6], c[7], dt, sy, cy, Mul(Mul(Mul(HALF, c[6]), dt), dt))

\* The body of the loop over the columns of Xsig_aug: the predicted sigma point
\* of the augmented sigma point c = (p_x, p_y, v, yaw, yawd, nu_a, nu_yawdd).
PredictSigmaPoint(c, dt) ==
    Bind(c[4] + Mul(c[5], dt),
         LAMBDA yaw_end : PredictWithTrig(c, dt, sin(c[4]), cos(c[4]), sin(yaw_end), cos(yaw_end)))

\* x_ = sum of weights_(i) * Xsig_pred_.col(i)
PredictedMean(w, Xsig) ==
    Vec(LAMBDA r : Sum(LAMBDA i : MulW(w[i], Xsig[i][r]), Len(Xsig)), n_x_)

\* x_diff = Xsig_pred_.col(i) - x_, its heading component normalized.
StateDiff(col, x) ==
    Vec(LAMBDA r : IF r = 4 THEN NormalizeAngle(col[r] - x[r]) ELSE col[r] - x[r], n_x_)

\* sum over the sigma points of weights_(i) * a_i * b_i.transpose()
WeightedOuter(w, as, bs, rows, cols) ==
    Vec(LAMBDA a : Vec(LAMBDA b :
          Sum(LAMBDA i : Mul(MulW(w[i], as[i][a]), bs[i][b]), Len(as)), cols), rows)

\* P_ = sum of weights_(i) * x_diff * x_diff.transpose()
PredictedCovariance(w, Xsig, x) ==
    Bind(Vec(LAMBDA i : StateDiff(Xsig[i], x), Len(Xsig)),
         LAMBDA diffs : WeightedOuter(w, diffs, diffs, n_x_, n_x_))

\* Per column of Xsig_aug, what the test of its yawd led to: the division by
\* yawd ("yawd") or the formula without a division ("straight").
YawdDivisors(Xsig_aug) ==
    {<<IF Turning(Xsig_aug[i][5]) THEN "yawd" ELSE "straight", Xsig_aug[i][5]>> :
        i \in 1..Len(Xsig_aug)}

\* What Prediction leaves behind, given the predicted sigma points and mean.
Predicted(w, Xsig, xp, info, divs) ==
    [x |-> xp, P |-> PredictedCovariance(w, Xsig, xp), Xsig_pred |-> Xsig,
     info |-> info, divs |-> divs]

\* Prediction from the augmented sigma points on.
PredictFrom(Xsig_aug, w, dt, info) ==
    Bind(Vec(LAMBDA i : PredictSigmaPoint(Xsig_aug[i], dt), NSigma(n_aug_)),
         LAMBDA Xsig : Predicted(w, Xsig, PredictedMean(w, Xsig), info, YawdDivisors(Xsig_aug)))

\* The whole of Prediction: the new x_, P_ and Xsig_pred_, the info() of the
\* factorization, and the divisors used.  The code does not look at info():
\* the sigma points are built from whatever matrixL() holds.
Prediction(x, P, w, dt) ==
    Bind(Llt(AugmentedCovariance(P), n_aug_),
         LAMBDA llt : PredictFrom(AugmentedSigmaPoints(AugmentedMean(x), MatrixL(llt.m, n_aug_),
                                                       sqrt((lambda_ + n_aug_) * SCALE)),
                                  w, dt, llt.info))

-----------------------------------------------------------------------------
(* UKF::UpdateLidar(meas_package). *)

\* H: the 2 x 5 matrix with H(0,0) = H(1,1) = 1.0.
H_laser == Vec(LAMBDA i : Vec(LAMBDA j : IF i = j THEN SCALE ELSE 0, n_x_), 2)

\* R of the laser.
R_laser == Diagonal(<<Mul(std_laspx_, std_laspx_), Mul(std_laspy_, std_laspy_)>>)

\* The state after an update: x_ + K * z_diff, P_ - dP, and the NIS
\* z_diff.transpose() * Si * z_diff.
Updated(x, P, K, dP, z_diff, Si, divs, log) ==
    [ran |-> TRUE, invertible |-> TRUE,
     x |-> VecAdd(x, MatVec(K, z_diff)),
     P |-> MatSub(P, dP),
     NIS |-> Dot(VecMat(z_diff, Si), z_diff),
     divs |-> divs, log |-> log]

\* The update leaves x_ and P_ as they are: the sensor is switched off.
Skipped(x, P) ==
    [ran |-> FALSE, invertible |-> TRUE, x |-> x, P |-> P, NIS |-> 0, divs |-> {}, log |-> <<>>]

\* S has a zero pivot: x_, P_ and the NIS become inf or nan.
NonFinite(x, P, divs, log) ==
    [ran |-> TRUE, invertible |-> FALSE, x |-> x, P |-> P, NIS |-> 0, divs |-> divs, log |-> log]

\* The gain and the update, once HP and the inverse of S are known.
LidarGain(x, P, HP, z_diff, inv) ==
    IF ~inv.invertible THEN NonFinite(x, P, {}, <<>>)
    ELSE Bind(MatMul(Transpose(HP), inv.m),
              LAMBDA K : Updated(x, P, K, MatMul(K, HP), z_diff, inv.m, {}, <<>>))

UpdateLidar(use_laser, x, P, raw) ==
    IF ~use_laser THEN Skipped(x, P)
    ELSE Bind(MatMul(H_laser, P),
              LAMBDA HP : LidarGain(x, P, HP,
                                    Vec(LAMBDA i : raw[i] - MatVec(H_laser, x)[i], 2),
                                    Inverse(MatAdd(MatMul(HP, Transpose(H_laser)), R_laser))))

-----------------------------------------------------------------------------
(* UKF::UpdateRadar(meas_package). *)

\* 0.001 of "if (Zsig(0, i) < 0.001)", and the range then assigned.
RHO_EPS == 10

\* Column i of Zsig from the computed range rho, and rho itself.
MeasuredColumn(p_x, p_y, v1, v2, rho) ==
    IF rho < RHO_EPS
    THEN [rho |-> rho, col |-> <<RHO_EPS, 0, Div(Mul(p_x, v1) + Mul(p_y, v2), RHO_EPS)>>]
    ELSE [rho |-> rho, col |-> <<rho, atan2(p_y, p_x), Div(Mul(p_x, v1) + Mul(p_y, v2), rho)>>]

\* The body of the loop over the predicted sigma points c = (p_x, p_y, v, yaw, yawd).
MeasureSigmaPoint(c) ==
    MeasuredColumn(c[1], c[2], Mul(cos(c[4]), c[3]), Mul(sin(c[4]), c[3]),
                   sqrt(Mul(c[1], c[1]) + Mul(c[2], c[2])))

\* z_pred = sum of weights_(i) * Zsig.col(i)
PredictedMeasurement(w, Zsig) ==
    Vec(LAMBDA r : Sum(LAMBDA i : MulW(w[i], Zsig[i][r]), Len(Zsig)), 3)

\* z_diff = Zsig.col(i) - z_pred, or the raw measurement - z_pred, its bearing normalized.
MeasDiff(col, z_pred) ==
    Vec(LAMBDA r : IF r = 2 THEN NormalizeAngle(col[r] - z_pred[r]) ELSE col[r] - z_pred[r], 3)

\* R of the radar.
R_radar ==
    Diagonal(<<Mul(std_radr_, std_radr_), Mul(std_radphi_, std_radphi_), Mul(std_radrd_, std_radrd_)>>)

\* The gain and the update, once Tc and the inverse of S are known.
RadarGain(x, P, Tc, z_diff, inv, divs, log) ==
    IF ~inv.invertible THEN NonFinite(x, P, divs, log)
    ELSE Bind(MatMul(Tc, inv.m),
              LAMBDA K : Updated(x, P, K, MatMul(Tc, Transpose(K)), z_diff, inv.m, divs, log))

\* S, Tc and the residual from the differences of the sigma points.
RadarMoments(x, P, w, raw, z_pred, z_diffs, x_diffs, divs, log) ==
    RadarGain(x, P, WeightedOuter(w, x_diffs, z_diffs, n_x_, 3), MeasDiff(raw, z_pred),
              Inverse(MatAdd(WeightedOuter(w, z_diffs, z_diffs, 3, 3), R_radar)), divs, log)

\* The update from Zsig and the predicted measurement on.
RadarFrom(x, P, Xsig, w, raw, pts, z_pred) ==
    RadarMoments(x, P, w, raw, z_pred,
                 Vec(LAMBDA i : MeasDiff(pts[i].col, z_pred), Len(Xsig)),
                 Vec(LAMBDA i : StateDiff(Xsig[i], x), Len(Xsig)),
                 {<<"rho", pts[i].col[1]>> : i \in 1..Len(Xsig)},
                 Vec(LAMBDA i : <<pts[i].rho, pts[i].col[1], pts[i].col[2]>>, Len(Xsig)))

UpdateRadar(use_radar, x, P, Xsig, w, raw) ==
    IF ~use_radar THEN Skipped(x, P)
    ELSE Bind(Vec(LAMBDA i : MeasureSigmaPoint(Xsig[i]), Len(Xsig)),
              LAMBDA pts : RadarFrom(x, P, Xsig, w, raw, pts,
                                     PredictedMeasurement(w, Vec(LAMBDA i : pts[i].col, Len(Xsig)))))

-----------------------------------------------------------------------------
(* The measurement packages handed to ProcessMeasurement. *)

\* MeasurementPackage::SensorType, and one value that is neither of the two.
SensorTypes == {"LASER", "RADAR", "OTHER"}

\* raw_measurements_: (px, py) = (2, 3) of a laser, (rho, phi, rho_dot) = (5, 0, 0) of a radar.
RawMeasurements(sensor) ==
    IF sensor = "LASER" THEN <<2 * SCALE, 3 * SCALE>>
    ELSE IF sensor = "RADAR" THEN <<5 * SCALE, 0, 0>>
    ELSE <<0, 0>>

\* The time between two packages, in microseconds: none, or 3.3 seconds.
Deltas == {0, 3300000}

\* The packages that can follow a package stamped last: timestamps never decrease.
Packages(last) ==
    {[sensor_type_ |-> s, raw_measurements_ |-> RawMeasurements(s), timestamp_ |-> last + d] :
        s \in SensorTypes, d \in Deltas}

-----------------------------------------------------------------------------
(* UKF::ProcessMeasurement(meas_package). *)

\* The test as "if (true)": every call takes the branch of the first.
EveryCall(initialized) == TRUE

\* if (!is_initialized_)
FirstCall(initialized) == ~initialized

\* n >= 0 cut to its 24 leading bits.
RECURSIVE LeadingBits(_)
LeadingBits(n) == IF n < 16777216 THEN n ELSE 2 * LeadingBits(n \div 2)

\* float rho = meas_package.raw_measurements_[1]: a float keeps 24 significant
\* bits.  The rounding is below one unit of the fixed point for every angle
\* under 1677.7216 in magnitude, and shows only beyond.
ToFloat(a) == SignOf(a, 1) * LeadingBits(Abs(a))

\* The position with sin and cos exchanged.
RadarPositionSwapped(raw) ==
    Bind(ToFloat(raw[2]), LAMBDA rho : <<Mul(raw[1], sin(rho)), Mul(raw[1], cos(rho))>>)

\* x_(0), x_(1) of a first radar measurement: raw(0) * cos(rho), raw(0) * sin(rho).
RadarPosition(raw) ==
    Bind(ToFloat(raw[2]), LAMBDA rho : <<Mul(raw[1], cos(rho)), Mul(raw[1], sin(rho))>>)

\* x_(2), x_(3), x_(4) of x_ << 0.0, 0.0, 3.0, 0.0, 0.1
DefaultTail == <<3 * SCALE, 0, SCALE \div 10>>

\* P_(3, 3) = M_PI * M_PI / 64.0
P33 == TDiv(Mul(M_PI, M_PI), 64)

\* x_ after the first call.
InitialMean(pkg) ==
    IF pkg.sensor_type_ = "RADAR" THEN RadarPosition(pkg.raw_measurements_) \o DefaultTail
    ELSE IF pkg.sensor_type_ = "LASER"
         THEN <<pkg.raw_measurements_[1], pkg.raw_measurements_[2]>> \o DefaultTail
         ELSE <<0, 0>> \o DefaultTail

\* P_(0, 0) and P_(1, 1) after the first call.
InitialPositionVariance(pkg) ==
    IF pkg.sensor_type_ = "RADAR"
    THEN <<Mul(Mul(std_radr_, std_radr_), HALF), Mul(Mul(std_radr_, std_radr_), HALF)>>
    ELSE IF pkg.sensor_type_ = "LASER"
         THEN <<Mul(std_laspx_, std_laspx_), Mul(std_laspy_, std_laspy_)>>
         ELSE <<SCALE, SCALE>>

\* P_ after the first call.
InitialCovariance(pkg) ==
    Diagonal(InitialPositionVariance(pkg) \o <<SCALE, P33, TDiv(P33, 10)>>)

\* The difference taken the other way round: time_us_ - meas_package.timestamp_.
ElapsedReversed(timestamp, last) == TDiv(last - timestamp, 1000000 \div SCALE)

\* double dt = (meas_package.timestamp_ - time_us_) / 1000000.0
ElapsedSeconds(timestamp, last) == TDiv(timestamp - last, 1000000 \div SCALE)

\* The updater the sensor type selects: "if RADAR ... else if LASER ...".
Dispatch(sensor) ==
    IF sensor = "RADAR" THEN <<"UpdateRadar">>
    ELSE IF sensor = "LASER" THEN <<"UpdateLidar">>
    ELSE <<>>

\* The update the sensor type selects, applied to the outcome p of Prediction.
RunUpdate(pkg, use_laser, use_radar, w, p) ==
    IF pkg.sensor_type_ = "RADAR"
    THEN UpdateRadar(use_radar, p.x, p.P, p.Xsig_pred, w, pkg.raw_measurements_)
    ELSE IF pkg.sensor_type_ = "LASER"
         THEN UpdateLidar(use_laser, p.x, p.P, pkg.raw_measurements_)
         ELSE Skipped(p.x, p.P)

\* The call after Prediction has returned p and the updater u.
AfterUpdate(p, u) ==
    [x |-> u.x, P |-> u.P, Xsig_pred |-> p.Xsig_pred, NIS |-> u.NIS,
     nonfinite |-> ~u.invertible,
     faults |-> (IF p.info = "NumericalIssue" THEN {"llt"} ELSE {})
                  \cup (IF u.invertible THEN {} ELSE {"inverse"}),
     divisors |-> p.divs \cup u.divs, Zsig_log |-> u.log]

\* The part of ProcessMeasurement after the test of is_initialized_.
ProcessTracking(pkg, use_laser, use_radar, x, P, w, dt) ==
    Bind(Prediction(x, P, w, dt),
         LAMBDA p : AfterUpdate(p, RunUpdate(pkg, use_laser, use_radar, w, p)))

\* The first call: x_, P_ and time_us_ are set from the package, nothing else runs.
Initialize ==
    /\ FirstCall(is_initialized_)
    /\ calls < MaxCalls
    /\ \E pkg \in Packages(time_us_) :
        /\ meas_package' = pkg
        /\ x_' = InitialMean(pkg)
        /\ P_' = InitialCovariance(pkg)
        /\ NIS_radar_' = IF pkg.sensor_type_ = "RADAR" THEN 0 ELSE NIS_radar_
        /\ NIS_laser_' = IF pkg.sensor_type_ = "LASER" THEN 0 ELSE NIS_laser_
        /\ time_us_' = pkg.timestamp_
    /\ is_initialized_' = TRUE
    /\ calls' = calls + 1
    /\ trace' = <<>>
    /\ delta_t' = 0
    /\ faults' = {}
    /\ outcome' = "return"
    /\ UNCHANGED <<use_laser_, use_radar_, Xsig_pred_, weights_, nonfinite, divisors, Zsig_log,
                   angle, normalized>>

\* Every later call: Prediction(dt), then the updater of the sensor type.
\* Nothing is computed from x_ and P_ once they hold inf or nan.
Track ==
    /\ ~FirstCall(is_initialized_)
    /\ calls < MaxCalls
    /\ ~nonfinite
    /\ \E pkg \in Packages(time_us_) :
        \E dt \in {ElapsedSeconds(pkg.timestamp_, time_us_)} :
        \E r \in {ProcessTracking(pkg, use_laser_, use_radar_, x_, P_, weights_, dt)} :
            /\ meas_package' = pkg
            /\ time_us_' = pkg.timestamp_
            /\ delta_t' = dt
            /\ trace' = <<"Prediction">> \o Dispatch(pkg.sensor_type_)
            /\ x_' = r.x
            /\ P_' = r.P
            /\ Xsig_pred_' = r.Xsig_pred
            /\ NIS_radar_' = IF pkg.sensor_type_ = "RADAR" THEN r.NIS ELSE NIS_radar_
            /\ NIS_laser_' = IF pkg.sensor_type_ = "LASER" THEN r.NIS ELSE NIS_laser_
            /\ nonfinite' = r.nonfinite
            /\ faults' = r.faults
            /\ divisors' = divisors \cup r.divisors
            /\ Zsig_log' = Zsig_log \cup {r.Zsig_log[i] : i \in 1..Len(r.Zsig_log)}
    /\ calls' = calls + 1
    /\ outcome' = "return"
    /\ UNCHANGED <<is_initialized_, use_laser_, use_radar_, weights_, angle, normalized>>

Next == Initialize \/ Track

Spec == Init /\ [][Next]_vars

-----------------------------------------------------------------------------
(* The angle normalization on its own: the statement of lines 222, 311, 326, *)
(* 331 and 345 applied to an angle, and once more to what it returned.       *)

\* The angles tried.
Angles ==
    {k * (SCALE \div 10) : k \in -MaxAngleSteps..MaxAngleSteps}
        \cup {k * M_PI : k \in -3..3}

InitNorm ==
    /\ Constructed
    /\ use_laser_
    /\ use_radar_
    /\ angle \in Angles
    /\ normalized = <<>>

\* angle = fmod(angle + M_PI, 2.0 * M_PI) - M_PI
Normalize ==
    /\ normalized = <<>>
    /\ normalized' = <<NormalizeAngle(angle)>>
    /\ UNCHANGED <<is_initialized_, use_laser_, use_radar_, time_us_, x_, P_, Xsig_pred_,
                   weights_, NIS_radar_, NIS_laser_, nonfinite, calls, meas_package,
                   trace, delta_t, faults, outcome, divisors, Zsig_log, angle>>

\* The same statement applied to the normalized angle.
Renormalize ==
    /\ Len(normalized) = 1
    /\ normalized' = Append(normalized, NormalizeAngle(normalized[1]))
    /\ UNCHANGED <<is_initialized_, use_laser_, use_radar_, time_us_, x_, P_, Xsig_pred_,
                   weights_, NIS_radar_, NIS_laser_, nonfinite, calls, meas_package,
                   trace, delta_t, faults, outcome, divisors, Zsig_log, angle>>

NextNorm == Normalize \/ Renormalize

SpecNorm == InitNorm /\ [][NextNorm]_vars


-----------------------------------------------------------------------------
(* The properties.  A "call" below is a step of Initialize or Track. *)

\* 0.001, the threshold of both guards.
Milli == SCALE \div 1000

\* C1: the first call of ProcessMeasurement, and only the first, sets x_, P_
\* and time_us_ from the package, sets is_initialized_ and runs neither
\* Prediction nor an updater; every later call leaves is_initialized_ set and
\* runs Prediction, followed by an updater when the package is a laser's or a
\* radar's.
C1_InitializedOnce ==
    [][ /\ (~is_initialized_ =>
              /\ is_initialized_'
              /\ trace' = <<>>
              /\ time_us_' = meas_package'.timestamp_
              /\ x_' = InitialMean(meas_package')
              /\ P_' = InitialCovariance(meas_package'))
        /\ (is_initialized_ =>
              /\ is_initialized_'
              /\ trace' # <<>>
              /\ trace'[1] = "Prediction"
              /\ (meas_package'.sensor_type_ \in {"LASER", "RADAR"} => Len(trace') = 2))
      ]_vars

\* A second or later call has run on the initialized estimator.
C1_Witness ==
    /\ calls >= 2
    /\ is_initialized_
    /\ trace = <<"Prediction", "UpdateLidar">>

\* C2, as stated: a call on the initialized estimator with a package of a
\* sensor that is switched off leaves x_ and P_ as they were and that sensor's
\* NIS at 0.  It is stated for the packages stamped later than the last one.
C2_DisabledSensorChangesNothing ==
    [][ (is_initialized_ /\ calls' = calls + 1 /\ meas_package'.timestamp_ > time_us_) =>
          /\ (meas_package'.sensor_type_ = "LASER" /\ ~use_laser_ =>
                x_' = x_ /\ P_' = P_ /\ NIS_laser_' = 0)
          /\ (meas_package'.sensor_type_ = "RADAR" /\ ~use_radar_ =>
                x_' = x_ /\ P_' = P_ /\ NIS_radar_' = 0)
      ]_vars

\* C3, as stated: a call whose package is neither a laser's nor a radar's ends
\* in an error and changes none of is_initialized_, x_, P_ and time_us_.
C3_UnknownSensorRejected ==
    [][ (calls' = calls + 1 /\ meas_package'.sensor_type_ \notin {"LASER", "RADAR"}) =>
          /\ outcome' = "error"
          /\ UNCHANGED <<is_initialized_, x_, P_, time_us_>>
      ]_vars

\* C4, as stated: a call in which the factorization of P_aug or the inverse of
\* S fails is reported to the caller and stops there: no sigma points are
\* computed from the failed factorization and no updater runs after it.
C4_FaultAbortsAndIsReported ==
    [][ (calls' = calls + 1 /\ faults' # {}) =>
          /\ outcome' = "error"
          /\ Xsig_pred_' = Xsig_pred_
          /\ ("llt" \in faults' => trace' = <<"Prediction">>)
      ]_vars

\* C5, as stated: a call in which the factorization or the inverse fails
\* leaves x_ and P_ as they were before the call, and the caller can tell it
\* from a call that succeeded.
C5_FailedStepLeavesState ==
    [][ (calls' = calls + 1 /\ faults' # {}) =>
          /\ x_' = x_
          /\ P_' = P_
          /\ outcome' # "return"
      ]_vars

\* a lies in (-pi, pi].
InHalfOpen(a) == -M_PI < a /\ a <= M_PI

\* C6, as stated: the normalization maps every angle into (-pi, pi], and
\* returns an angle that already lies in (-pi, pi] unchanged.
C6_NormalizedIntoHalfOpen ==
    /\ \A i \in 1..Len(normalized) : InHalfOpen(normalized[i])
    /\ (Len(normalized) >= 1 /\ InHalfOpen(angle) => normalized[1] = angle)

\* C7: after the first call the position is the measured one, (px, py) of a
\* laser and (rho * cos(phi), rho * sin(phi)) of a radar, so (2, 3) for the
\* laser's (2, 3) and (5, 0) for the radar's (5, 0, 0); speed, heading and
\* heading rate are 3, 0 and 0.1 whatever the package.
C7_InitialState ==
    calls = 1 =>
      /\ SubSeq(x_, 3, 5) = <<3 * SCALE, 0, SCALE \div 10>>
      /\ (meas_package.sensor_type_ = "LASER" =>
            /\ x_[1] = meas_package.raw_measurements_[1]
            /\ x_[2] = meas_package.raw_measurements_[2]
            /\ (meas_package.raw_measurements_ = <<2 * SCALE, 3 * SCALE>> =>
                  SubSeq(x_, 1, 2) = <<2 * SCALE, 3 * SCALE>>))
      /\ (meas_package.sensor_type_ = "RADAR" =>
            /\ x_[1] = Mul(meas_package.raw_measurements_[1], cos(meas_package.raw_measurements_[2]))
            /\ x_[2] = Mul(meas_package.raw_measurements_[1], sin(meas_package.raw_measurements_[2]))
            /\ (meas_package.raw_measurements_ = <<5 * SCALE, 0, 0>> =>
                  SubSeq(x_, 1, 2) = <<5 * SCALE, 0>>))

\* The first call was given the radar's (5, 0, 0).
C7_Witness ==
    /\ calls = 1
    /\ meas_package.sensor_type_ = "RADAR"
    /\ x_ = <<5 * SCALE, 0, 3 * SCALE, 0, SCALE \div 10>>

\* The entries of the sequence w of quotients sum to 1: brought to the common
\* denominator d, a multiple of every denominator, the numerators sum to d.
SumsTo(w, d) ==
    /\ \A i \in 1..Len(w) : d % w[i].den = 0
    /\ Sum(LAMBDA i : w[i].num * (d \div w[i].den), Len(w)) = d

\* The entries of w sum to 1.
SumsToOne(w) == SumsTo(w, w[1].den * w[2].den)

C9_ElapsedTimeAndDispatch ==
    [][ (is_initialized_ /\ calls' = calls + 1
            /\ meas_package'.sensor_type_ \in {"LASER", "RADAR"}) =>
          /\ delta_t' * (1000000 \div SCALE) = meas_package'.timestamp_ - time_us_
          /\ delta_t' >= 0
          /\ time_us_' = meas_package'.timestamp_
          /\ trace' = <<"Prediction",
                        IF meas_package'.sensor_type_ = "RADAR" THEN "UpdateRadar"
                        ELSE "UpdateLidar">>
      ]_vars

\* A laser's package came 3.3 s after the last package while the laser is switched off.
C9_Witness ==
    /\ calls >= 2
    /\ ~use_laser_
    /\ trace = <<"Prediction", "UpdateLidar">>
    /\ delta_t = 33 * (SCALE \div 10)
    /\ time_us_ = meas_package.timestamp_
    /\ time_us_ > 0

====
